---------------------------- MODULE Spec2Model ----------------------------
(***************************************************************************)
(* Model of the conversation turn engine of the AI voice agent: the HTTP   *)
(* routes /outgoing-call, /call-webhook/{id} and /call-response/{id}, the   *)
(* ConversationService they construct, the response generator              *)
(* (LLMService) and the recorder (CallLogService).                         *)
(*                                                                         *)
(* Text is modelled as a sequence of one-character strings, so that        *)
(* lower(), strip(), substring tests, concatenation and len() are computed *)
(* as Python computes them.  Timestamps and call durations are not         *)
(* modelled.                                                               *)
(***************************************************************************)
EXTENDS Integers, Sequences, FiniteSets, TLC

(***************************************************************************)
(* Bounds of the model.                                                    *)
(***************************************************************************)
\* number of call records the model creates
MaxCalls == 1
\* number of transcript rows after which no further request is taken
MaxTranscript == 3

(***************************************************************************)
(* Python values.                                                          *)
(***************************************************************************)
\* None where a text (str) is expected
NoneText == <<"<None>">>
\* a key that is absent from a parsed JSON object, where a text is expected
AbsentText == <<"<absent>">>
\* None / absent key where an atom (intent, confidence, sid) is expected
PyNone == "<None>"
Absent == "<absent>"

\* str(x) as an f-string formats it
Str(x) == IF x = NoneText THEN <<"N", "o", "n", "e">> ELSE x

\* truth value of an optional string (None and "" are falsy)
Truthy(s) == s \notin {PyNone, ""}

\* dict.get(key, default)
DictGet(d, key, default) == IF key \in DOMAIN d THEN d[key] ELSE default

\* d[key] = value
DictSet(d, key, value) == [k \in DOMAIN d \cup {key} |-> IF k = key THEN value ELSE d[k]]

\* a del that leaves the entry in place
DictDelKeeps(d, key) == d

\* if key in d: del d[key]
DictDel(d, key) == [k \in DOMAIN d \ {key} |-> d[k]]

\* the empty dict
EmptyDict == [k \in {} |-> 0]

(***************************************************************************)
(* str.lower(), str.strip(), the `in` operator on strings.                 *)
(***************************************************************************)
UpperToLower ==
  [A |-> "a", B |-> "b", C |-> "c", D |-> "d", E |-> "e", F |-> "f", G |-> "g",
   H |-> "h", I |-> "i", J |-> "j", K |-> "k", L |-> "l", M |-> "m", N |-> "n",
   O |-> "o", P |-> "p", Q |-> "q", R |-> "r", S |-> "s", T |-> "t", U |-> "u",
   V |-> "v", W |-> "w", X |-> "x", Y |-> "y", Z |-> "z"]

LowerChar(c) == IF c \in DOMAIN UpperToLower THEN UpperToLower[c] ELSE c

Lower(s) == [i \in 1..Len(s) |-> LowerChar(s[i])]

Whitespace == {" ", "\t", "\n", "\r"}

RECURSIVE LStrip(_)
LStrip(s) == IF s # <<>> /\ Head(s) \in Whitespace THEN LStrip(Tail(s)) ELSE s

RECURSIVE RStrip(_)
RStrip(s) ==
  IF s # <<>> /\ s[Len(s)] \in Whitespace THEN RStrip(SubSeq(s, 1, Len(s) - 1)) ELSE s

Strip(s) == RStrip(LStrip(s))

\* needle in haystack
Contains(haystack, needle) ==
  \E i \in 0..(Len(haystack) - Len(needle)) : SubSeq(haystack, i + 1, i + Len(needle)) = needle

(***************************************************************************)
(* Fixed texts of the program.                                             *)
(***************************************************************************)
\* the keyword list without "no"
ending_keywords_without_no ==
  { <<"b", "y", "e">>, <<"g", "o", "o", "d", "b", "y", "e">>, <<"t", "h", "a", "n", "k", " ", "y", "o", "u">>, <<"t", "h", "a", "n", "k", "s">>, <<"s", "e", "e", " ", "y", "o", "u">>,
    <<"t", "a", "l", "k", " ", "t", "o", " ", "y", "o", "u", " ", "l", "a", "t", "e", "r">>, <<"t", "t", "y", "l">>, <<"e", "n", "d">>, <<"s", "t", "o", "p">>, <<"n", "o", "t", "h", "i", "n", "g">>,
    <<"n", "o", "p", "e">>, <<"t", "h", "a", "t", "'", "s", " ", "a", "l", "l">>, <<"a", "l", "l", " ", "g", "o", "o", "d">>, <<"n", "o", " ", "t", "h", "a", "n", "k", "s">>, <<"i", "'", "m", " ", "g", "o", "o", "d">> }

ending_keywords ==
  { <<"b", "y", "e">>, <<"g", "o", "o", "d", "b", "y", "e">>, <<"t", "h", "a", "n", "k", " ", "y", "o", "u">>, <<"t", "h", "a", "n", "k", "s">>, <<"s", "e", "e", " ", "y", "o", "u">>,
    <<"t", "a", "l", "k", " ", "t", "o", " ", "y", "o", "u", " ", "l", "a", "t", "e", "r">>, <<"t", "t", "y", "l">>, <<"e", "n", "d">>, <<"s", "t", "o", "p">>, <<"n", "o">>, <<"n", "o", "t", "h", "i", "n", "g">>,
    <<"n", "o", "p", "e">>, <<"t", "h", "a", "t", "'", "s", " ", "a", "l", "l">>, <<"a", "l", "l", " ", "g", "o", "o", "d">>, <<"n", "o", " ", "t", "h", "a", "n", "k", "s">>, <<"i", "'", "m", " ", "g", "o", "o", "d">> }

\* exact-match words of which one holds no ending keyword
exact_keywords_and_on == { <<"n", "o">>, <<"n", "o", "p", "e">>, <<"n", "o", "t", "h", "i", "n", "g">>, <<"o", "n">> }

exact_keywords == { <<"n", "o">>, <<"n", "o", "p", "e">>, <<"n", "o", "t", "h", "i", "n", "g">> }

final_words == { <<"n", "o">>, <<"n", "o", "t", "h", "i", "n", "g">>, <<"n", "o", "p", "e">>, <<"t", "h", "a", "t", "'", "s", " ", "a", "l", "l">>, <<"i", "'", "m", " ", "g", "o", "o", "d">> }

final_response == <<"T", "h", "a", "n", "k", " ", "y", "o", "u", ",", " ", "h", "a", "v", "e", " ", "a", " ", "g", "o", "o", "d", " ", "d", "a", "y", "!">>

generic_ending == <<"U", "n", "d", "e", "r", "s", "t", "o", "o", "d", ".", " ", "T", "h", "a", "n", "k", " ", "y", "o", "u", " ", "f", "o", "r", " ", "y", "o", "u", "r", " ", "t", "i", "m", "e", ".", " ", "H", "a", "v", "e", " ", "a", " ", "g", "r", "e", "a", "t", " ", "d", "a", "y", "!">>

ending_suffix == <<" ", "T", "h", "a", "n", "k", " ", "y", "o", "u", " ", "f", "o", "r", " ", "y", "o", "u", "r", " ", "t", "i", "m", "e", ".", " ", "H", "a", "v", "e", " ", "a", " ", "g", "r", "e", "a", "t", " ", "d", "a", "y", "!">>

llm_failure_response == <<"I", " ", "u", "n", "d", "e", "r", "s", "t", "a", "n", "d", ".", " ", "T", "h", "a", "n", "k", " ", "y", "o", "u", " ", "f", "o", "r", " ", "s", "h", "a", "r", "i", "n", "g", " ", "t", "h", "a", "t", " ", "w", "i", "t", "h", " ", "m", "e", ".">>

llm_default_response == <<"T", "h", "a", "n", "k", " ", "y", "o", "u", " ", "f", "o", "r", " ", "s", "h", "a", "r", "i", "n", "g", " ", "t", "h", "a", "t", " ", "w", "i", "t", "h", " ", "m", "e", ".">>

error_suffix == <<".", " ", "G", "o", "o", "d", "b", "y", "e", "!">>

call_not_found == <<"C", "a", "l", "l", " ", "n", "o", "t", " ", "f", "o", "u", "n", "d">>

internal_error == <<"I", "n", "t", "e", "r", "n", "a", "l", " ", "e", "r", "r", "o", "r", " ", "o", "c", "c", "u", "r", "r", "e", "d">>

user_response_error == <<"S", "o", "r", "r", "y", ",", " ", "I", " ", "e", "n", "c", "o", "u", "n", "t", "e", "r", "e", "d", " ", "a", "n", " ", "e", "r", "r", "o", "r">>

route_webhook_error == <<"S", "o", "r", "r", "y", ",", " ", "a", "n", " ", "e", "r", "r", "o", "r", " ", "o", "c", "c", "u", "r", "r", "e", "d", ".", " ", "G", "o", "o", "d", "b", "y", "e", "!">>

route_response_error == <<"S", "o", "r", "r", "y", ",", " ", "I", " ", "d", "i", "d", "n", "'", "t", " ", "u", "n", "d", "e", "r", "s", "t", "a", "n", "d", ".", " ", "G", "o", "o", "d", "b", "y", "e", "!">>

continue_goodbye == <<"T", "h", "a", "n", "k", " ", "y", "o", "u", " ", "f", "o", "r", " ", "y", "o", "u", "r", " ", "t", "i", "m", "e", ".", " ", "G", "o", "o", "d", "b", "y", "e", "!">>

\* len(response_text) < RawTextLimit keeps the raw text
RawTextLimit == 100

\* the turn limit of should_end_by_turns
TurnLimit == 2

\* the turn count from which the generator treats the turn as final
FinalTurnFrom == 1

\* the turn count from which the exact-match rule applies
ExactRuleFrom == 2

(***************************************************************************)
(* The inputs the model draws from.                                        *)
(***************************************************************************)
\* the call identifier the provider gives the call placed for a record
SidOf(call_log_id) == <<"CA1", "CA2", "CA3", "CA4", "CA5">>[call_log_id]

\* the records requests name: a request can arrive before its record exists
CallLogIds == 1..MaxCalls

ConversationTypes == {"survey"}

Greetings == { <<"H", "e", "l", "l", "o", ",", " ", "a", " ", "q", "u", "i", "c", "k", " ", "s", "u", "r", "v", "e", "y", "?">> }

Utterances == { <<"T", "e", "l", "l", " ", "m", "e", " ", "m", "o", "r", "e">>, <<" ", "N", "O", " ">> }

\* the replies of the model: see generate_optimized_bot_response
Replies ==
  { [kind |-> "raise"],
    [kind |-> "text", text |-> <<"{", "G", "o", " ", "o", "n", ".", "}">>],
    [kind |-> "json", response |-> AbsentText, intent |-> Absent,
     confidence |-> Absent, should_continue |-> Absent],
    [kind |-> "json", response |-> <<"S", "u", "r", "e", ".">>, intent |-> "interested",
     confidence |-> "high", should_continue |-> "true"],
    [kind |-> "json", response |-> <<"S", "u", "r", "e", ".">>, intent |-> "wants_to_end",
     confidence |-> "high", should_continue |-> "true"],
    [kind |-> "json", response |-> <<"S", "u", "r", "e", ".">>, intent |-> "interested",
     confidence |-> "high", should_continue |-> "false"],
    [kind |-> "json", response |-> NoneText, intent |-> "interested",
     confidence |-> "high", should_continue |-> "true"],
    [kind |-> "json", response |-> NoneText, intent |-> "wants_to_end",
     confidence |-> "high", should_continue |-> "false"] }

\* the turn counts a stored session can hold
TurnCounts == 0..TurnLimit

(***************************************************************************)
(* Markup renderer (ConversationService._generate_*_twiml).  A document is *)
(* its first spoken text, the speech-collection element (or NoGather) and,  *)
(* last, the hangup that all three documents end with.                     *)
(***************************************************************************)
RECURSIVE Replace(_, _, _)
\* s.replace(c, r) for a one-character c
Replace(s, c, r) ==
  IF s = <<>> THEN <<>>
  ELSE (IF Head(s) = c THEN r ELSE <<Head(s)>>) \o Replace(Tail(s), c, r)

\* the same replacements with the ampersand replaced last
EscapeXmlAmpersandLast(message) ==
  Replace(Replace(Replace(Replace(Replace(message,
    "<", <<"&", "l", "t", ";">>), ">", <<"&", "g", "t", ";">>), "'", <<"&", "a", "p", "o", "s", ";">>), "\"", <<"&", "q", "u", "o", "t", ";">>), "&", <<"&", "a", "m", "p", ";">>)

EscapeXml(message) ==
  Replace(Replace(Replace(Replace(Replace(message,
    "&", <<"&", "a", "m", "p", ";">>), "<", <<"&", "l", "t", ";">>), ">", <<"&", "g", "t", ";">>), "'", <<"&", "a", "p", "o", "s", ";">>), "\"", <<"&", "q", "u", "o", "t", ";">>)

\* the texts the requests of the model can speak
BotResponses ==
  {llm_failure_response, llm_default_response}
  \cup {r.text : r \in {x \in Replies : x.kind = "text"}}
  \cup {r.response : r \in {x \in Replies : x.kind = "json"}}

SpokenTexts ==
  {final_response, generic_ending, call_not_found, internal_error, user_response_error}
  \cup Greetings \cup BotResponses \cup {Str(b) \o ending_suffix : b \in BotResponses}

\* EscapeXml evaluated once for each of these texts
EscapeCache == [m \in SpokenTexts |-> EscapeXml(m)]

Escaped(message) ==
  IF message \in SpokenTexts THEN EscapeCache[message] ELSE EscapeXml(message)

NoGather == [timeout |-> 0, speechTimeout |-> 0, base |-> <<>>, path |-> "", id |-> 0]

\* None.replace(...) raises AttributeError
RendererRaises(message) == message = NoneText

_generate_error_twiml(message) ==
  [say |-> Escaped(message) \o error_suffix, gather |-> NoGather, hangup |-> TRUE]

_generate_hangup_twiml(message) ==
  [say |-> Escaped(message), gather |-> NoGather, hangup |-> TRUE]

_generate_continue_twiml(message, call_log_id, webhook_base_url) ==
  [say |-> Escaped(message),
   gather |-> [timeout |-> 8, speechTimeout |-> 2, base |-> webhook_base_url,
               path |-> "/call-response/", id |-> call_log_id],
   hangup |-> TRUE]

\* the documents the routes build themselves when the handler does not return
RouteWebhookErrorTwiml == [say |-> route_webhook_error, gather |-> NoGather, hangup |-> TRUE]

RouteResponseErrorTwiml == [say |-> route_response_error, gather |-> NoGather, hangup |-> TRUE]

\* a document that hangs up without collecting speech
IsHangupDoc(doc) == doc.gather = NoGather /\ doc.hangup

\* a document that speaks and then collects the caller's next utterance
IsContinueDoc(doc) == doc.gather # NoGather

(***************************************************************************)
(* Recorder (CallLogService).  call_logs is the table of call records, the *)
(* row id being the index; transcripts is the table of transcript rows in  *)
(* insertion order.  `commits` is whether the database accepts the write:  *)
(* when it does not, the method rolls back and returns False.              *)
(***************************************************************************)
create_call_log(logs, conversation_type, greeting) ==
  Append(logs, [conversation_type |-> conversation_type, greeting |-> greeting,
                status |-> "initiated", call_sid |-> PyNone])

update_call_status(logs, call_log_id, status, call_sid, commits) ==
  IF commits /\ call_log_id \in DOMAIN logs
    THEN [call_logs |->
            [logs EXCEPT ![call_log_id] =
               [@ EXCEPT !.status = status,
                         !.call_sid = IF Truthy(call_sid) THEN call_sid ELSE @]],
          ok |-> TRUE]
    ELSE [call_logs |-> logs, ok |-> FALSE]

\* a recorder that stores the turn twice
add_conversation_message_twice(rows, call_log_id, speaker, message, intent_detected, confidence_score, commits) ==
  IF commits /\ message # NoneText
    THEN LET row == [call_log_id |-> call_log_id, speaker |-> speaker,
                     message |-> message, intent_detected |-> intent_detected,
                     confidence_score |-> confidence_score]
         IN [transcripts |-> rows \o <<row, row>>, ok |-> TRUE]
    ELSE [transcripts |-> rows, ok |-> FALSE]

\* message[:50] raises TypeError for a None message, inside the try
add_conversation_message(rows, call_log_id, speaker, message, intent_detected, confidence_score, commits) ==
  IF commits /\ message # NoneText
    THEN [transcripts |->
            Append(rows, [call_log_id |-> call_log_id, speaker |-> speaker,
                          message |-> message, intent_detected |-> intent_detected,
                          confidence_score |-> confidence_score]),
          ok |-> TRUE]
    ELSE [transcripts |-> rows, ok |-> FALSE]

\* the record, or None when there is none or the query fails
get_call_log(logs, call_log_id, reads) ==
  IF reads /\ call_log_id \in DOMAIN logs THEN <<logs[call_log_id]>> ELSE <<>>

(***************************************************************************)
(* Response generator (LLMService.generate_optimized_bot_response).  The   *)
(* model's reply is one of:                                                *)
(*   [kind |-> "raise"]   generate_content or response.text raises         *)
(*   [kind |-> "json", response, intent, confidence, should_continue]      *)
(*                        the text between the first "{" and the last "}"  *)
(*                        parses to this object (Absent: key missing)      *)
(*   [kind |-> "text", text]   no such text, or json.loads raises on it    *)
(***************************************************************************)
RECURSIVE Find(_, _)
\* s.find(c) for a one-character c, from 0, -1 when c is not in s
Find(s, c) ==
  IF s = <<>> THEN -1
  ELSE IF Head(s) = c THEN 0
  ELSE LET rest == Find(Tail(s), c) IN IF rest = -1 THEN -1 ELSE rest + 1

RECURSIVE RFind(_, _)
\* s.rfind(c)
RFind(s, c) ==
  IF s = <<>> THEN -1
  ELSE IF s[Len(s)] = c THEN Len(s) - 1
  ELSE RFind(SubSeq(s, 1, Len(s) - 1), c)

\* lines 100-102: the reply has a text for json.loads to parse
HasJsonText(response_text) ==
  LET json_start == Find(response_text, "{")
      json_end == RFind(response_text, "}") + 1
  IN  json_start # -1 /\ json_end > json_start

\* a final-turn test that waits for the second turn
is_final_turn_from_two(user_message, turn_count) ==
  turn_count >= 2 \/ \E word \in final_words : Contains(Lower(user_message), word)

is_final_turn(user_message, turn_count) ==
  turn_count >= FinalTurnFrom \/ \E word \in final_words : Contains(Lower(user_message), word)

\* is_final_turn evaluated once for each utterance and turn count of the model
FinalTurnCache == [u \in Utterances |-> [t \in TurnCounts |-> is_final_turn(u, t)]]

IsFinalTurn(user_message, turn_count) ==
  IF user_message \in Utterances /\ turn_count \in TurnCounts
    THEN FinalTurnCache[user_message][turn_count]
    ELSE is_final_turn(user_message, turn_count)

JsonBool(v) == v = "true"

\* a failure result that lets the conversation go on
llm_failure_result_continues ==
  [response |-> llm_failure_response, intent |-> "neutral", confidence |-> "low",
   should_continue |-> TRUE]

\* the result returned when the model call raises (lines 127-136)
llm_failure_result ==
  [response |-> llm_failure_response, intent |-> "neutral", confidence |-> "low",
   should_continue |-> FALSE]

\* a generator that keeps a raw text of exactly the limit
generate_optimized_bot_response_at_most(conversation_type, user_message, conversation_history, turn_count, model_reply) ==
  IF model_reply.kind = "raise"
    THEN llm_failure_result
  ELSE IF model_reply.kind = "json"
    THEN [response |-> IF model_reply.response = AbsentText THEN llm_default_response
                       ELSE model_reply.response,
          intent |-> IF model_reply.intent = Absent THEN "neutral" ELSE model_reply.intent,
          confidence |-> IF model_reply.confidence = Absent THEN "medium" ELSE model_reply.confidence,
          should_continue |-> IF model_reply.should_continue = Absent
                              THEN ~IsFinalTurn(user_message, turn_count)
                              ELSE JsonBool(model_reply.should_continue)]
  ELSE [response |-> IF Len(model_reply.text) <= RawTextLimit THEN model_reply.text
                     ELSE llm_default_response,
        intent |-> "neutral", confidence |-> "medium",
        should_continue |-> ~IsFinalTurn(user_message, turn_count)]

generate_optimized_bot_response(conversation_type, user_message, conversation_history, turn_count, model_reply) ==
  IF model_reply.kind = "raise"
    THEN llm_failure_result
  ELSE IF model_reply.kind = "json"
    THEN [response |-> IF model_reply.response = AbsentText THEN llm_default_response
                       ELSE model_reply.response,
          intent |-> IF model_reply.intent = Absent THEN "neutral" ELSE model_reply.intent,
          confidence |-> IF model_reply.confidence = Absent THEN "medium" ELSE model_reply.confidence,
          should_continue |-> IF model_reply.should_continue = Absent
                              THEN ~IsFinalTurn(user_message, turn_count)
                              ELSE JsonBool(model_reply.should_continue)]
  ELSE [response |-> IF Len(model_reply.text) < RawTextLimit THEN model_reply.text
                     ELSE llm_default_response,
        intent |-> "neutral", confidence |-> "medium",
        should_continue |-> ~IsFinalTurn(user_message, turn_count)]

\* the decision recorded for a request that does not call the generator
NoDecision == [response |-> <<>>, intent |-> PyNone, confidence |-> PyNone,
               should_continue |-> FALSE]

(***************************************************************************)
(* Turn engine (ConversationService).                                      *)
(***************************************************************************)
\* f"call_{call_log_id}"
CallKey(call_log_id) == <<"call_1", "call_2", "call_3", "call_4", "call_5">>[call_log_id]

\* the context used when the store has no session under the key
DefaultContext == [turn_count |-> 0, conversation_history |-> <<>>,
                   conversation_type |-> "general"]

\* a classifier that matches the utterance as spoken, neither lower-cased nor trimmed
should_end_conversation_as_spoken(speech_result, turn_count) ==
  \/ \E keyword \in ending_keywords : Contains(speech_result, keyword)
  \/ turn_count >= ExactRuleFrom /\ speech_result \in exact_keywords

\* a classifier that also ends the call on an utterance with nothing in it
should_end_conversation_or_silence(speech_result, turn_count) ==
  LET user_message_lower == Strip(Lower(speech_result))
  IN  \/ \E keyword \in ending_keywords : Contains(user_message_lower, keyword)
      \/ turn_count >= ExactRuleFrom /\ user_message_lower \in exact_keywords
      \/ user_message_lower = <<>>

\* the reply classifier: ending keyword as a substring, or the exact-match rule
should_end_conversation(speech_result, turn_count) ==
  LET user_message_lower == Strip(Lower(speech_result))
  IN  \/ \E keyword \in ending_keywords : Contains(user_message_lower, keyword)
      \/ turn_count >= ExactRuleFrom /\ user_message_lower \in exact_keywords

\* should_end_conversation evaluated once for each utterance and turn count
ClassifierCache ==
  [u \in Utterances |-> [t \in TurnCounts |-> should_end_conversation(u, t)]]

ShouldEndConversation(speech_result, turn_count) ==
  IF speech_result \in Utterances /\ turn_count \in TurnCounts
    THEN ClassifierCache[speech_result][turn_count]
    ELSE should_end_conversation(speech_result, turn_count)

\* an end-of-call rule that ignores the intent
should_end_by_turns_ignoring_intent(turn_count, bot_response_data) ==
  \/ turn_count >= TurnLimit
  \/ bot_response_data.should_continue = FALSE

should_end_by_turns(turn_count, bot_response_data) ==
  \/ turn_count >= TurnLimit
  \/ bot_response_data.should_continue = FALSE
  \/ bot_response_data.intent = "wants_to_end"

\* a closing line that is generic for "nothing" alone
ending_response_nothing_only(speech_result, bot_response) ==
  IF Contains(Lower(speech_result), <<"n", "o", "t", "h", "i", "n", "g">>)
    THEN generic_ending
    ELSE Str(bot_response) \o ending_suffix

ending_response(speech_result, bot_response) ==
  IF Contains(Lower(speech_result), <<"n", "o">>) \/ Contains(Lower(speech_result), <<"n", "o", "t", "h", "i", "n", "g">>)
    THEN generic_ending
    ELSE Str(bot_response) \o ending_suffix

\* ending_response evaluated once for each utterance and reply of the model
EndingCache == [u \in Utterances |-> [b \in BotResponses |-> ending_response(u, b)]]

EndingResponse(speech_result, bot_response) ==
  IF speech_result \in Utterances /\ bot_response \in BotResponses
    THEN EndingCache[speech_result][bot_response]
    ELSE ending_response(speech_result, bot_response)

\* the session written back after a generated reply (lines 214-234)
UpdatedSession(context, call_log_id, speech_result, bot_response, intent) ==
  [turn_count |-> context.turn_count + 1,
   conversation_history |->
     context.conversation_history
       \o << [speaker |-> "user", message |-> speech_result, intent |-> intent],
             [speaker |-> "bot", message |-> bot_response] >>,
   conversation_type |-> context.conversation_type,
   call_log_id |-> call_log_id]

\* an except clause that takes the session back out of the store
UserResponseExceptRollsBack(store, conversation_key) == DictDel(store, conversation_key)

\* what the except clause of handle_user_response does to the store
UserResponseExcept(store, conversation_key) == store

(* handle_user_response on the service's store and the database; commits says  *)
(* which of its writes the database accepts.  The result is the store and the  *)
(* tables it leaves, the document it returns, and what it read and asked.      *)
\* a handler that gives up on the turn when the recorder reports a failed write
RecorderResultChecked(ok, result) ==
  IF ok THEN result
  ELSE [result EXCEPT !.twiml = _generate_error_twiml(user_response_error),
                      !.path = "except"]

\* the handler awaits the recorder and drops what it returns
RecorderResult(ok, result) == result

handle_user_response(store, logs, rows, base, call_log_id, speech_result, call_sid, model_reply, commits) ==
  LET conversation_key == call_sid
      conversation_context == DictGet(store, conversation_key, DefaultContext)
      turn_count == conversation_context.turn_count
      conversation_history == conversation_context.conversation_history
      conversation_type == conversation_context.conversation_type
      user_row == add_conversation_message(rows, call_log_id, "user", speech_result,
                                           PyNone, PyNone, commits.user)
  IN
  RecorderResult(user_row.ok,
  IF ShouldEndConversation(speech_result, turn_count)
    THEN
      LET bot_row == add_conversation_message(user_row.transcripts, call_log_id, "bot",
                                              final_response, PyNone, PyNone, commits.bot)
          status == update_call_status(logs, call_log_id, "completed", PyNone,
                                       commits.status)
      IN [store |-> DictDel(store, conversation_key),
          call_logs |-> status.call_logs,
          transcripts |-> bot_row.transcripts,
          twiml |-> _generate_hangup_twiml(final_response),
          loaded |-> conversation_context,
          llm_calls |-> 0,
          decision |-> NoDecision,
          path |-> "classifier_end"]
    ELSE
      LET bot_response_data ==
            generate_optimized_bot_response(conversation_type, speech_result,
                                            conversation_history, turn_count, model_reply)
          bot_response == bot_response_data.response
          intent == bot_response_data.intent
          confidence == bot_response_data.confidence
          bot_row == add_conversation_message(user_row.transcripts, call_log_id, "bot",
                                              bot_response, intent, confidence,
                                              commits.bot)
          session == UpdatedSession(conversation_context, call_log_id, speech_result,
                                    bot_response, intent)
          written == DictSet(store, conversation_key, session)
      IN
      IF should_end_by_turns(session.turn_count, bot_response_data)
        THEN
          LET status == update_call_status(logs, call_log_id, "completed", PyNone,
                                           commits.status)
          IN [store |-> DictDel(written, conversation_key),
              call_logs |-> status.call_logs,
              transcripts |-> bot_row.transcripts,
              twiml |-> _generate_hangup_twiml(EndingResponse(speech_result,
                                                              bot_response)),
              loaded |-> conversation_context,
              llm_calls |-> 1,
              decision |-> bot_response_data,
              path |-> "reply_end"]
      ELSE IF RendererRaises(bot_response)
        THEN [store |-> UserResponseExcept(written, conversation_key),
              call_logs |-> logs,
              transcripts |-> bot_row.transcripts,
              twiml |-> _generate_error_twiml(user_response_error),
              loaded |-> conversation_context,
              llm_calls |-> 1,
              decision |-> bot_response_data,
              path |-> "except"]
      ELSE [store |-> written,
            call_logs |-> logs,
            transcripts |-> bot_row.transcripts,
            twiml |-> _generate_continue_twiml(bot_response, call_log_id, base),
            loaded |-> conversation_context,
            llm_calls |-> 1,
            decision |-> bot_response_data,
            path |-> "continue"])

\* a webhook handler that does not record the greeting
handle_call_webhook_unrecorded(store, logs, rows, base, call_log_id, call_sid, reads, commits) ==
  LET found == get_call_log(logs, call_log_id, reads)
  IN
  IF found = <<>>
    THEN [store |-> store, transcripts |-> rows,
          twiml |-> _generate_error_twiml(call_not_found), path |-> "not_found"]
    ELSE
      LET call_log == found[1]
          conversation_key == IF Truthy(call_sid) THEN call_sid ELSE CallKey(call_log_id)
          session == [turn_count |-> 0, conversation_history |-> <<>>,
                      conversation_type |-> call_log.conversation_type,
                      call_log_id |-> call_log_id]
      IN [store |-> DictSet(store, conversation_key, session),
          transcripts |-> rows,
          twiml |-> _generate_continue_twiml(call_log.greeting, call_log_id, base),
          path |-> "greeting"]

\* handle_call_webhook on the service's store and the database
handle_call_webhook(store, logs, rows, base, call_log_id, call_sid, reads, commits) ==
  LET found == get_call_log(logs, call_log_id, reads)
  IN
  IF found = <<>>
    THEN [store |-> store, transcripts |-> rows,
          twiml |-> _generate_error_twiml(call_not_found), path |-> "not_found"]
    ELSE
      LET call_log == found[1]
          conversation_key == IF Truthy(call_sid) THEN call_sid ELSE CallKey(call_log_id)
          session == [turn_count |-> 0, conversation_history |-> <<>>,
                      conversation_type |-> call_log.conversation_type,
                      call_log_id |-> call_log_id]
          bot_row == add_conversation_message(rows, call_log_id, "bot", call_log.greeting,
                                              PyNone, PyNone, commits)
      IN [store |-> DictSet(store, conversation_key, session),
          transcripts |-> bot_row.transcripts,
          twiml |-> _generate_continue_twiml(call_log.greeting, call_log_id, base),
          path |-> "greeting"]

\* initiate_outgoing_call; call_sid is what TwilioService.make_outgoing_call returns
initiate_outgoing_call(store, logs, conversation_type, greeting, call_sid, commits) ==
  IF ~commits.create
    THEN [store |-> store, call_logs |-> logs, success |-> FALSE,
          message |-> "Error initiating call"]
    ELSE
      LET created == create_call_log(logs, conversation_type, greeting)
          call_log_id == Len(created)
      IN
      IF Truthy(call_sid)
        THEN [store |-> DictSet(store, call_sid,
                                [call_log_id |-> call_log_id,
                                 conversation_type |-> conversation_type,
                                 greeting |-> greeting, turn_count |-> 0,
                                 conversation_history |-> <<>>]),
              call_logs |-> update_call_status(created, call_log_id, "in_progress",
                                               call_sid, commits.status).call_logs,
              success |-> TRUE, message |-> "Call initiated successfully"]
        ELSE [store |-> store,
              call_logs |-> update_call_status(created, call_log_id, "failed", PyNone,
                                               commits.status).call_logs,
              success |-> FALSE, message |-> "Failed to initiate call"]

(***************************************************************************)
(* The running process.  Every route constructs its own ConversationService*)
(* (routes.py lines 44, 87, 129), whose __init__ starts from an empty      *)
(* store; active_conversations is the store of the service constructed by  *)
(* the latest request, as that request left it.                            *)
(***************************************************************************)
VARIABLES
  credentials,          \* the Twilio and Gemini credentials are in the environment
  call_logs,            \* table call_logs
  transcripts,          \* table conversation_transcripts
  active_conversations, \* self.active_conversations of the latest service
  request,              \* the latest request
  db_up,                \* whether the database accepted its reads and writes
  reply,                \* what the model replied to it, when asked
  response,             \* the answer to the request
  loaded,               \* the context handle_user_response read from the store
  decision,             \* what the response generator returned
  llm_calls,            \* calls of model.generate_content made by the request
  path,                 \* the return statement the request ended at
  inflight              \* two speech events handled at the same time, each by its
                        \* own service: where each is, and what it holds

vars == <<credentials, call_logs, transcripts, active_conversations, request, db_up,
          reply, response, loaded, decision, llm_calls, path, inflight>>

\* os.getenv('WEBHOOK_BASE_URL') of the deployment
WEBHOOK_BASE_URL == <<"h", "t", "t", "p", "s", ":", "/", "/", "x", ".", "i", "o">>

NoRequest == [op |-> "none", call_log_id |-> 0, call_sid |-> PyNone, speech_result |-> <<>>]

NoReply == [kind |-> "none"]

\* the two requests handled at the same time
Slots == {1, 2}

Idle == [pc |-> "idle"]

NoResponse == [say |-> <<>>, gather |-> NoGather, hangup |-> FALSE]

\* ConversationService.__init__: the store a newly constructed service starts from
NewStore == EmptyDict

Init ==
  /\ credentials \in BOOLEAN
  /\ call_logs = <<>>
  /\ transcripts = <<>>
  /\ active_conversations = EmptyDict
  /\ request = NoRequest
  /\ db_up = TRUE
  /\ reply = NoReply
  /\ response = NoResponse
  /\ loaded = DefaultContext
  /\ decision = NoDecision
  /\ llm_calls = 0
  /\ path = "none"
  /\ inflight = [i \in Slots |-> Idle]

\* POST /outgoing-call.  The HTTPException with status 400 raised for a result without
\* success is raised inside the try of the route and caught by its except Exception,
\* which raises the one with status 500 (routes.py 65-68).
create_outgoing_call(conversation_type, greeting, call_sid, up) ==
  /\ Len(call_logs) < MaxCalls
  /\ request' = [op |-> "place", call_log_id |-> 0, call_sid |-> PyNone,
                 speech_result |-> <<>>]
  /\ db_up' = up
  /\ reply' = NoReply
  /\ loaded' = DefaultContext
  /\ decision' = NoDecision
  /\ llm_calls' = 0
  /\ UNCHANGED <<credentials, transcripts, inflight>>
  /\ IF ~credentials
       THEN /\ response' = [status |-> 500, detail |-> "Internal server error"]
            /\ path' = "route_except"
            /\ UNCHANGED <<call_logs, active_conversations>>
       ELSE LET result == initiate_outgoing_call(NewStore, call_logs, conversation_type,
                                                 greeting, call_sid,
                                                 [create |-> up, status |-> up])
            IN /\ call_logs' = result.call_logs
               /\ active_conversations' = result.store
               /\ response' = IF result.success
                                THEN [status |-> 200, detail |-> result.message]
                                ELSE [status |-> 500, detail |-> "Internal server error",
                                      cause |-> [status |-> 400,
                                                 detail |-> result.message]]
               /\ path' = IF result.success THEN "placed" ELSE "route_except"

\* POST /call-webhook/{call_log_id}
handle_call_webhook_route(call_log_id, call_sid, up) ==
  /\ Len(transcripts) < MaxTranscript
  /\ request' = [op |-> "webhook", call_log_id |-> call_log_id, call_sid |-> call_sid,
                 speech_result |-> <<>>]
  /\ db_up' = up
  /\ reply' = NoReply
  /\ loaded' = DefaultContext
  /\ decision' = NoDecision
  /\ llm_calls' = 0
  /\ UNCHANGED <<credentials, call_logs, inflight>>
  /\ IF ~credentials
       THEN /\ response' = RouteWebhookErrorTwiml
            /\ path' = "route_except"
            /\ UNCHANGED <<transcripts, active_conversations>>
       ELSE LET result == handle_call_webhook(NewStore, call_logs, transcripts,
                                              WEBHOOK_BASE_URL, call_log_id, call_sid,
                                              up, up)
            IN /\ transcripts' = result.transcripts
               /\ active_conversations' = result.store
               /\ response' = result.twiml
               /\ path' = result.path

\* POST /call-response/{call_log_id}; model_reply is what the model replies if asked
handle_call_response(call_log_id, speech_result, call_sid, model_reply, up) ==
  /\ Len(transcripts) < MaxTranscript
  /\ request' = [op |-> "speech", call_log_id |-> call_log_id, call_sid |-> call_sid,
                 speech_result |-> speech_result]
  /\ db_up' = up
  /\ UNCHANGED <<credentials, inflight>>
  /\ IF ~credentials
       THEN /\ response' = RouteResponseErrorTwiml
            /\ path' = "route_except"
            /\ reply' = NoReply
            /\ loaded' = DefaultContext
            /\ decision' = NoDecision
            /\ llm_calls' = 0
            /\ UNCHANGED <<call_logs, transcripts, active_conversations>>
       ELSE LET result == handle_user_response(NewStore, call_logs, transcripts,
                                               WEBHOOK_BASE_URL, call_log_id,
                                               speech_result, call_sid, model_reply,
                                               [user |-> up, bot |-> up, status |-> up])
            IN /\ call_logs' = result.call_logs
               /\ transcripts' = result.transcripts
               /\ active_conversations' = result.store
               /\ response' = result.twiml
               /\ reply' = IF result.llm_calls > 0 THEN model_reply ELSE NoReply
               /\ loaded' = result.loaded
               /\ decision' = result.decision
               /\ llm_calls' = result.llm_calls
               /\ path' = result.path

\* The model replies only when it is asked: the replies to draw from for a request
\* whose handler calls generate_content, and a single one for a request whose
\* handler returns without calling it.
RepliesAsked(call_log_id, speech_result) ==
  IF credentials
     /\ handle_user_response(NewStore, call_logs, transcripts, WEBHOOK_BASE_URL,
                             call_log_id, speech_result, SidOf(call_log_id),
                             [kind |-> "raise"],
                             [user |-> TRUE, bot |-> TRUE, status |-> TRUE]).llm_calls > 0
    THEN Replies
    ELSE {[kind |-> "raise"]}

\* The database is up or down for the length of one request: `up` is whether it
\* accepts the reads and writes of the request.  The provider calls back with the
\* identifier of the call it placed for the record, or, on /call-webhook, with none.
Next ==
  \/ \E conversation_type \in ConversationTypes, greeting \in Greetings,
        call_sid \in {SidOf(Len(call_logs) + 1), PyNone}, up \in BOOLEAN :
       create_outgoing_call(conversation_type, greeting, call_sid, up)
  \/ \E call_log_id \in CallLogIds, up \in BOOLEAN :
       \E call_sid \in {SidOf(call_log_id), PyNone} :
         handle_call_webhook_route(call_log_id, call_sid, up)
  \/ \E call_log_id \in CallLogIds, speech_result \in Utterances, up \in BOOLEAN :
       \E model_reply \in RepliesAsked(call_log_id, speech_result) :
         handle_call_response(call_log_id, speech_result, SidOf(call_log_id),
                              model_reply, up)

Spec == Init /\ [][Next]_vars

(***************************************************************************)
(* Two speech events of one call handled at the same time.  The handler is *)
(* a coroutine: it gives way to the other request at each await, and runs  *)
(* alone between two awaits.  Each request has the service, and so the     *)
(* store, that its route constructed; the two share the database.          *)
(***************************************************************************)
\* the call is placed for the first record and its greeting has been spoken
ConnectedLogs ==
  initiate_outgoing_call(NewStore, <<>>, "survey", <<"H", "e", "l", "l", "o", ",", " ", "a", " ", "q", "u", "i", "c", "k", " ", "s", "u", "r", "v", "e", "y", "?">>, SidOf(1),
                         [create |-> TRUE, status |-> TRUE]).call_logs

Connected ==
  handle_call_webhook(NewStore, ConnectedLogs, <<>>, WEBHOOK_BASE_URL, Len(ConnectedLogs),
                      SidOf(Len(ConnectedLogs)), TRUE, TRUE)

ConcInit ==
  /\ credentials = TRUE
  /\ call_logs = ConnectedLogs
  /\ transcripts = Connected.transcripts
  /\ active_conversations = Connected.store
  /\ request = [op |-> "webhook", call_log_id |-> Len(ConnectedLogs),
                call_sid |-> SidOf(Len(ConnectedLogs)), speech_result |-> <<>>]
  /\ db_up = TRUE
  /\ reply = NoReply
  /\ response = Connected.twiml
  /\ loaded = DefaultContext
  /\ decision = NoDecision
  /\ llm_calls = 0
  /\ path = "greeting"
  /\ inflight = [i \in Slots |-> Idle]

\* lines 143-177 on a service of its own: the context is read from the store and
\* the classifier has run when the handler first gives way (the await of line 180)
Receive(i, speech_result, model_reply, up) ==
  /\ inflight[i].pc = "idle"
  /\ LET call_log_id == Len(ConnectedLogs)
         conversation_key == SidOf(call_log_id)
         context == DictGet(NewStore, conversation_key, DefaultContext)
     IN inflight' =
          [inflight EXCEPT ![i] =
             [pc |-> "user_row", call_log_id |-> call_log_id,
              call_sid |-> conversation_key, speech_result |-> speech_result,
              reply |-> model_reply, up |-> up, store |-> NewStore,
              context |-> context,
              ends |-> ShouldEndConversation(speech_result, context.turn_count),
              decision |-> NoDecision, twiml |-> NoResponse, path |-> "none"]]
  /\ UNCHANGED <<credentials, call_logs, transcripts, active_conversations, request,
                 db_up, reply, response, loaded, decision, llm_calls, path>>

\* line 180: the user's row is written; the handler goes on to line 184
SaveUser(i) ==
  /\ inflight[i].pc = "user_row"
  /\ transcripts' = add_conversation_message(transcripts, inflight[i].call_log_id, "user",
                                             inflight[i].speech_result, PyNone, PyNone,
                                             inflight[i].up).transcripts
  /\ inflight' = [inflight EXCEPT ![i].pc = IF inflight[i].ends THEN "final_row"
                                            ELSE "generate"]
  /\ UNCHANGED <<credentials, call_logs, active_conversations, request, db_up, reply,
                 response, loaded, decision, llm_calls, path>>

\* line 189: the closing line's row is written
SaveFinal(i) ==
  /\ inflight[i].pc = "final_row"
  /\ transcripts' = add_conversation_message(transcripts, inflight[i].call_log_id, "bot",
                                             final_response, PyNone, PyNone,
                                             inflight[i].up).transcripts
  /\ inflight' = [inflight EXCEPT ![i].pc = "final_status"]
  /\ UNCHANGED <<credentials, call_logs, active_conversations, request, db_up, reply,
                 response, loaded, decision, llm_calls, path>>

\* lines 194-198: the record is completed, the session deleted, the document returned
CompleteFinal(i) ==
  /\ inflight[i].pc = "final_status"
  /\ call_logs' = update_call_status(call_logs, inflight[i].call_log_id, "completed",
                                     PyNone, inflight[i].up).call_logs
  /\ inflight' = [inflight EXCEPT ![i].pc = "done",
                                  ![i].store = DictDel(@, inflight[i].call_sid),
                                  ![i].twiml = _generate_hangup_twiml(final_response),
                                  ![i].path = "classifier_end"]
  /\ UNCHANGED <<credentials, transcripts, active_conversations, request, db_up, reply,
                 response, loaded, decision, llm_calls, path>>

\* lines 201-207: the generator is awaited
Generate(i) ==
  /\ inflight[i].pc = "generate"
  /\ inflight' =
       [inflight EXCEPT ![i].pc = "bot_row",
                        ![i].decision =
                          generate_optimized_bot_response(
                            inflight[i].context.conversation_type,
                            inflight[i].speech_result,
                            inflight[i].context.conversation_history,
                            inflight[i].context.turn_count, inflight[i].reply)]
  /\ UNCHANGED <<credentials, call_logs, transcripts, active_conversations, request,
                 db_up, reply, response, loaded, decision, llm_calls, path>>

\* lines 210-241 and 258-262: the bot's row is written, then, without giving way, the
\* session is written to the store and the end of the call is decided
SaveBot(i) ==
  /\ inflight[i].pc = "bot_row"
  /\ LET slot == inflight[i]
         session == UpdatedSession(slot.context, slot.call_log_id, slot.speech_result,
                                   slot.decision.response, slot.decision.intent)
         written == DictSet(slot.store, slot.call_sid, session)
     IN /\ transcripts' = add_conversation_message(transcripts, slot.call_log_id, "bot",
                                                   slot.decision.response,
                                                   slot.decision.intent,
                                                   slot.decision.confidence,
                                                   slot.up).transcripts
        /\ inflight' =
             [inflight EXCEPT ![i] =
                IF should_end_by_turns(session.turn_count, slot.decision)
                  THEN [slot EXCEPT !.pc = "end_status", !.store = written]
                ELSE IF RendererRaises(slot.decision.response)
                  THEN [slot EXCEPT !.pc = "done",
                                    !.store = UserResponseExcept(written, slot.call_sid),
                                    !.twiml = _generate_error_twiml(user_response_error),
                                    !.path = "except"]
                ELSE [slot EXCEPT !.pc = "done", !.store = written,
                                  !.twiml = _generate_continue_twiml(slot.decision.response,
                                                                     slot.call_log_id,
                                                                     WEBHOOK_BASE_URL),
                                  !.path = "continue"]]
  /\ UNCHANGED <<credentials, call_logs, active_conversations, request, db_up, reply,
                 response, loaded, decision, llm_calls, path>>

\* lines 253-257: the record is completed, the session deleted, the document returned
CompleteEnd(i) ==
  /\ inflight[i].pc = "end_status"
  /\ call_logs' = update_call_status(call_logs, inflight[i].call_log_id, "completed",
                                     PyNone, inflight[i].up).call_logs
  /\ inflight' =
       [inflight EXCEPT ![i].pc = "done",
                        ![i].store = DictDel(@, inflight[i].call_sid),
                        ![i].twiml =
                          _generate_hangup_twiml(
                            EndingResponse(inflight[i].speech_result,
                                           inflight[i].decision.response)),
                        ![i].path = "reply_end"]
  /\ UNCHANGED <<credentials, transcripts, active_conversations, request, db_up, reply,
                 response, loaded, decision, llm_calls, path>>

ConcNext ==
  \E i \in Slots :
    \/ \E speech_result \in Utterances, up \in BOOLEAN :
         \E model_reply \in (IF ShouldEndConversation(speech_result,
                                                     DefaultContext.turn_count)
                             THEN {[kind |-> "raise"]} ELSE Replies) :
           Receive(i, speech_result, model_reply, up)
    \/ SaveUser(i)
    \/ SaveFinal(i)
    \/ CompleteFinal(i)
    \/ Generate(i)
    \/ SaveBot(i)
    \/ CompleteEnd(i)

ConcSpec == ConcInit /\ [][ConcNext]_vars

(***************************************************************************)
(* What the specification says of the program, and what the model shows.   *)
(***************************************************************************)
\* the termination phrases the specification lists
TerminationPhrases ==
  { <<"b", "y", "e">>, <<"g", "o", "o", "d", "b", "y", "e">>, <<"t", "h", "a", "n", "k", " ", "y", "o", "u">>, <<"t", "h", "a", "n", "k", "s">>, <<"s", "e", "e", " ", "y", "o", "u">>,
    <<"t", "a", "l", "k", " ", "t", "o", " ", "y", "o", "u", " ", "l", "a", "t", "e", "r">>, <<"t", "t", "y", "l">>, <<"e", "n", "d">>, <<"s", "t", "o", "p">>, <<"n", "o">>, <<"n", "o", "t", "h", "i", "n", "g">>,
    <<"n", "o", "p", "e">>, <<"t", "h", "a", "t", "'", "s", " ", "a", "l", "l">>, <<"a", "l", "l", " ", "g", "o", "o", "d">>, <<"n", "o", " ", "t", "h", "a", "n", "k", "s">>, <<"i", "'", "m", " ", "g", "o", "o", "d">> }

\* utterances that hold a termination phrase in upper case, between blanks, inside a
\* sentence or inside a word
TerminatingUtterances ==
  { <<" ", "N", "O", " ">>, <<"G", "o", "o", "d", "b", "y", "e", "!">>, <<" ", " ", "T", "H", "A", "N", "K", " ", "Y", "O", "U", " ", " ">>, <<"I", "'", "m", " ", "g", "o", "o", "d">>, <<"t", "h", "a", "t", "'", "s", " ", "a", "l", "l", " ", "f", "o", "r", " ", "n", "o", "w">>,
    <<"I", " ", "k", "n", "o", "w">>, <<"p", "l", "e", "a", "s", "e", " ", "S", "T", "O", "P">>, <<"n", "o", "p", "e">> }

HasTerminationPhrase(utterance) ==
  \E phrase \in TerminationPhrases : Contains(Strip(Lower(utterance)), phrase)

TerminationCache ==
  [u \in Utterances \cup TerminatingUtterances |-> HasTerminationPhrase(u)]

\* the closing line of the classifier's terminal transition
ClosingLine == <<"T", "h", "a", "n", "k", " ", "y", "o", "u", ",", " ", "h", "a", "v", "e", " ", "a", " ", "g", "o", "o", "d", " ", "d", "a", "y", "!">>

ClosingDoc == [say |-> ClosingLine, gather |-> NoGather, hangup |-> TRUE]

\* a markup document
IsMarkup(doc) == DOMAIN doc = {"say", "gather", "hangup"}

\* a session of the call of record 1 at a turn count, with the history of its turns
SessionAt(turn_count) ==
  [turn_count |-> turn_count,
   conversation_history |->
     [n \in 1..(2 * turn_count) |->
        IF n % 2 = 1 THEN [speaker |-> "user", message |-> <<"T", "e", "l", "l", " ", "m", "e", " ", "m", "o", "r", "e">>,
                           intent |-> "interested"]
        ELSE [speaker |-> "bot", message |-> <<"S", "u", "r", "e", ".">>]],
   conversation_type |-> "survey", call_log_id |-> Len(ConnectedLogs)]

\* the stores a service could hold for that call: no session, or one at any turn count
SessionStores ==
  {EmptyDict} \cup {DictSet(EmptyDict, SidOf(Len(ConnectedLogs)), SessionAt(t)) :
                      t \in TurnCounts}

AllUp == [user |-> TRUE, bot |-> TRUE, status |-> TRUE]

\* the request names the record of a call that was placed, and is keyed by the
\* identifier the provider gave that call
OfPlacedCall(req) ==
  /\ req.call_log_id \in DOMAIN call_logs
  /\ call_logs[req.call_log_id].call_sid = req.call_sid

HasRecord == OfPlacedCall(request)

\* the request names a record of the table
RecordExists == request.call_log_id \in DOMAIN call_logs

\* the request was handled by handle_user_response
Handled == request.op = "speech" /\ credentials

\* C1 for every store a service could hold: at any turn count and with or without a
\* session, an utterance with a termination phrase gets the closing line and a hangup,
\* the record is completed, no session is left and the generator is not called.
C1_AnySession ==
  \A store \in SessionStores, utterance \in TerminatingUtterances, r \in Replies :
    LET result == handle_user_response(store, ConnectedLogs, Connected.transcripts,
                                       WEBHOOK_BASE_URL, Len(ConnectedLogs), utterance,
                                       SidOf(Len(ConnectedLogs)), r, AllUp)
    IN /\ TerminationCache[utterance]
       /\ result.twiml = ClosingDoc
       /\ result.call_logs[Len(ConnectedLogs)].status = "completed"
       /\ SidOf(Len(ConnectedLogs)) \notin DOMAIN result.store
       /\ result.llm_calls = 0

\* C1 as the specification states it: a speech event whose utterance, lower-cased and
\* trimmed, contains a termination phrase returns a hangup speaking the closing line,
\* leaves the call record completed, leaves no session under the key and does not call
\* the response generator.
C1_AsClaimed ==
  (Handled /\ TerminationCache[request.speech_result])
    => /\ response = ClosingDoc
       /\ HasRecord => call_logs[request.call_log_id].status = "completed"
       /\ request.call_sid \notin DOMAIN active_conversations
       /\ llm_calls = 0

\* C1, amended: such a speech event returns a hangup speaking the closing line, leaves
\* no session under the key and does not call the response generator, at any turn
\* count and with or without a session; the record's status is completed when the
\* record exists and the database accepted the update.
C1_Terminal ==
  /\ C1_AnySession
  /\ (Handled /\ TerminationCache[request.speech_result])
       => /\ response = ClosingDoc
          /\ path = "classifier_end"
          /\ request.call_sid \notin DOMAIN active_conversations
          /\ llm_calls = 0
          /\ (RecordExists /\ db_up) => call_logs[request.call_log_id].status = "completed"

\* C1 witness: an utterance with a termination phrase has been handled for a call
\* that has a record, and the record is completed.
C1_Witness ==
  /\ Handled /\ TerminationCache[request.speech_result] /\ HasRecord /\ db_up
  /\ path = "classifier_end"
  /\ call_logs[request.call_log_id].status = "completed"

\* C2 as the specification states it: the turn count, history and conversation type
\* a speech event reads are those the previous request of the call (the webhook or a
\* speech event) left stored under the key.
C2_AsClaimed ==
  [][ (/\ request.op \in {"webhook", "speech"}
       /\ request'.op = "speech" /\ credentials /\ OfPlacedCall(request')
       /\ request'.call_sid \in DOMAIN active_conversations)
        => LET stored == active_conversations[request'.call_sid]
           IN /\ loaded'.turn_count = stored.turn_count
              /\ loaded'.conversation_history = stored.conversation_history
              /\ loaded'.conversation_type = stored.conversation_type ]_vars

\* C3 as the specification states it: of the speech events of one call at most one is
\* answered with a continue document; the event after it is answered with a hangup.
C3_AsClaimed ==
  [][ (/\ request.op = "speech" /\ OfPlacedCall(request) /\ IsContinueDoc(response)
       /\ request'.op = "speech" /\ request'.call_sid = request.call_sid)
        => IsHangupDoc(response') ]_vars

\* C4 as the specification states it: after a termination decision has removed the
\* session of a key, a further speech event for the key leaves no session under it
\* and is answered with a hangup.
C4_AsClaimed ==
  [][ (/\ request.op = "speech" /\ OfPlacedCall(request) /\ path = "reply_end"
       /\ request'.op = "speech" /\ request'.call_sid = request.call_sid)
        => /\ request'.call_sid \notin DOMAIN active_conversations'
           /\ IsHangupDoc(response') ]_vars

\* C5 for every store a service could hold: with the generator asked, the call ends
\* exactly when the incremented turn count reaches 2, the decision says not to
\* continue, or its intent is wants_to_end.
C5_AnySession ==
  \A store \in SessionStores, r \in Replies :
    LET key == SidOf(Len(ConnectedLogs))
        before == DictGet(store, key, DefaultContext)
        result == handle_user_response(store, ConnectedLogs, Connected.transcripts,
                                       WEBHOOK_BASE_URL, Len(ConnectedLogs),
                                       <<"T", "e", "l", "l", " ", "m", "e", " ", "m", "o", "r", "e">>, key, r, AllUp)
        ends == \/ before.turn_count + 1 >= 2
                \/ result.decision.should_continue = FALSE
                \/ result.decision.intent = "wants_to_end"
    IN /\ result.llm_calls = 1
       /\ ends <=> result.path = "reply_end"
       /\ ends <=> key \notin DOMAIN result.store
       /\ ends <=> result.call_logs[Len(ConnectedLogs)].status = "completed"
       /\ ends => IsHangupDoc(result.twiml)
       /\ ~ends => /\ result.store[key].turn_count = before.turn_count + 1
                   /\ Len(result.store[key].conversation_history)
                        = Len(before.conversation_history) + 2

\* the end-of-call rule of the specification on what the request read and was told
C5_Ends ==
  \/ loaded.turn_count + 1 >= 2
  \/ decision.should_continue = FALSE
  \/ decision.intent = "wants_to_end"

\* the session the store holds after a reply that does not end the call
C5_Stored ==
  /\ request.call_sid \in DOMAIN active_conversations
  /\ active_conversations[request.call_sid].turn_count = loaded.turn_count + 1
  /\ active_conversations[request.call_sid].conversation_history
       = loaded.conversation_history
           \o << [speaker |-> "user", message |-> request.speech_result,
                  intent |-> decision.intent],
                 [speaker |-> "bot", message |-> decision.response] >>

\* C5 as the specification states it: after the generator returned a decision the call
\* ends iff the incremented turn count >= 2, continue is false or the intent is
\* wants_to_end; then the response is a hangup, the record is completed and the session
\* removed; otherwise the response is a continue document speaking the reply and the
\* store holds the session with the new turn count and history.
C5_AsClaimed ==
  (Handled /\ llm_calls > 0)
    => IF C5_Ends
         THEN /\ IsHangupDoc(response)
              /\ HasRecord => call_logs[request.call_log_id].status = "completed"
              /\ request.call_sid \notin DOMAIN active_conversations
         ELSE /\ IsContinueDoc(response)
              /\ response.say = EscapeXml(decision.response)
              /\ C5_Stored

\* C5, amended: the call ends under that rule; when it ends the response is a hangup,
\* the session is removed, and the record is completed if it exists and the database
\* accepted the update; otherwise the store holds the session with the new turn count
\* and history, and the response is a continue document speaking the reply, unless
\* the reply is not a string (JSON null): then the response is the error document,
\* and the session stays stored.
C5_TurnEnd ==
  /\ C5_AnySession
  /\ (Handled /\ llm_calls > 0)
       => IF C5_Ends
            THEN /\ IsHangupDoc(response)
                 /\ path = "reply_end"
                 /\ request.call_sid \notin DOMAIN active_conversations
                 /\ (RecordExists /\ db_up)
                      => call_logs[request.call_log_id].status = "completed"
            ELSE /\ C5_Stored
                 /\ IF decision.response = NoneText
                      THEN /\ response = _generate_error_twiml(user_response_error)
                           /\ path = "except"
                      ELSE /\ IsContinueDoc(response)
                           /\ response.say = Escaped(decision.response)
                           /\ path = "continue"

\* C5 witness: both outcomes are reached; here the call goes on after a reply.
C5_Witness ==
  /\ Handled /\ llm_calls > 0 /\ ~C5_Ends /\ HasRecord
  /\ IsContinueDoc(response) /\ C5_Stored

\* C6 as the specification states it: a speech event that reaches the generator
\* leaves the stored turn count one above the one the previous request of the call
\* left stored.
C6_AsClaimed ==
  [][ (/\ request.op \in {"webhook", "speech"}
       /\ request'.op = "speech" /\ credentials /\ OfPlacedCall(request')
       /\ llm_calls' > 0
       /\ request'.call_sid \in DOMAIN active_conversations
       /\ request'.call_sid \in DOMAIN active_conversations')
        => active_conversations'[request'.call_sid].turn_count
             = active_conversations[request'.call_sid].turn_count + 1 ]_vars

\* the fallback decision of the specification
FallbackDecision ==
  [response |-> <<"I", " ", "u", "n", "d", "e", "r", "s", "t", "a", "n", "d", ".", " ", "T", "h", "a", "n", "k", " ", "y", "o", "u", " ", "f", "o", "r", " ", "s", "h", "a", "r", "i", "n", "g", " ", "t", "h", "a", "t", " ", "w", "i", "t", "h", " ", "m", "e", ".">>,
   intent |-> "neutral", confidence |-> "low", should_continue |-> FALSE]

\* the model call raised, or json.loads raised on the text between the braces
C7_Raised(model_reply) ==
  \/ model_reply.kind = "raise"
  \/ model_reply.kind = "text" /\ HasJsonText(model_reply.text)

C8_Serial(first, second) ==
  LET a == inflight[first]
      b == inflight[second]
      ra == handle_user_response(Connected.store, ConnectedLogs, Connected.transcripts,
                                 WEBHOOK_BASE_URL, a.call_log_id, a.speech_result,
                                 a.call_sid, a.reply,
                                 [user |-> a.up, bot |-> a.up, status |-> a.up])
      rb == handle_user_response(ra.store, ra.call_logs, ra.transcripts,
                                 WEBHOOK_BASE_URL, b.call_log_id, b.speech_result,
                                 b.call_sid, b.reply,
                                 [user |-> b.up, bot |-> b.up, status |-> b.up])
  IN [first |-> ra.twiml, second |-> rb.twiml, store |-> rb.store]

\* C8 as the specification states it: when two speech events of one call have been
\* handled at the same time, the documents returned and the session left in the store
\* are those of the two events handled one after the other, in one of the two orders.
C8_AsClaimed ==
  (\A i \in Slots : inflight[i].pc = "done")
    => \E order \in {<<1, 2>>, <<2, 1>>} :
         LET serial == C8_Serial(order[1], order[2])
         IN /\ inflight[order[1]].twiml = serial.first
            /\ inflight[order[2]].twiml = serial.second
            /\ inflight[order[2]].store = serial.store

\* C9: a termination decision leaves no session under the key, and a speech event
\* for the same key after it reads no session, is handled with conversation type
\* general, turn count 0 and an empty history, and is answered with a markup document.
C9_FreshAfterEnd ==
  [][ /\ (request'.op = "speech" /\ credentials
          /\ path' \in {"classifier_end", "reply_end"})
         => request'.call_sid \notin DOMAIN active_conversations'
      /\ (/\ request.op = "speech" /\ path \in {"classifier_end", "reply_end"}
          /\ request'.op = "speech" /\ request'.call_sid = request.call_sid)
         => /\ request'.call_sid \notin DOMAIN active_conversations
            /\ loaded' = [turn_count |-> 0, conversation_history |-> <<>>,
                          conversation_type |-> "general"]
            /\ IsMarkup(response')
            /\ path' \in {"classifier_end", "reply_end", "continue", "except"} ]_vars

\* C9 witness: the record was completed by an earlier termination, and a later speech
\* event of the call has been handled as a fresh session and went on.
C9_Witness ==
  /\ Handled /\ HasRecord /\ call_logs[request.call_log_id].status = "completed"
  /\ path = "continue" /\ loaded = DefaultContext /\ IsMarkup(response)

\* the spoken text opens with an apology
Apologises(doc) == Len(doc.say) >= 5 /\ SubSeq(doc.say, 1, 5) = <<"S", "o", "r", "r", "y">>

MaxMessageLen == 3

MessageAlphabet == {"&", "<", ">", "'", "\"", "l", "t", ";"}

RECURSIVE TextsOver(_, _)
\* the texts of at most n characters of an alphabet
TextsOver(alphabet, n) ==
  IF n = 0 THEN {<<>>}
  ELSE LET shorter == TextsOver(alphabet, n - 1)
       IN shorter \cup {Append(s, c) : s \in shorter, c \in alphabet}

Messages == TextsOver(MessageAlphabet, MaxMessageLen)

RenderInit ==
  /\ credentials = TRUE
  /\ call_logs = <<>>
  /\ transcripts = <<>>
  /\ active_conversations = EmptyDict
  /\ request \in {[op |-> "render", message |-> m] : m \in Messages}
  /\ db_up = TRUE
  /\ reply = NoReply
  /\ response = NoResponse
  /\ loaded = DefaultContext
  /\ decision = NoDecision
  /\ llm_calls = 0
  /\ path = "none"
  /\ inflight = [i \in Slots |-> Idle]

RenderError ==
  /\ response' = _generate_error_twiml(request.message)
  /\ path' = "error"
  /\ UNCHANGED <<credentials, call_logs, transcripts, active_conversations, request,
                 db_up, reply, loaded, decision, llm_calls, inflight>>

RenderHangup ==
  /\ response' = _generate_hangup_twiml(request.message)
  /\ path' = "hangup"
  /\ UNCHANGED <<credentials, call_logs, transcripts, active_conversations, request,
                 db_up, reply, loaded, decision, llm_calls, inflight>>

RenderContinue(call_log_id) ==
  /\ response' = _generate_continue_twiml(request.message, call_log_id, WEBHOOK_BASE_URL)
  /\ path' = "continue"
  /\ UNCHANGED <<credentials, call_logs, transcripts, active_conversations, request,
                 db_up, reply, loaded, decision, llm_calls, inflight>>

RenderNext ==
  \/ RenderError
  \/ RenderHangup
  \/ \E call_log_id \in CallLogIds : RenderContinue(call_log_id)

RenderSpec == RenderInit /\ [][RenderNext]_vars

\* the five entity references an XML parser replaces in character data
Entities ==
  { [ref |-> <<"&", "a", "m", "p", ";">>, char |-> "&"], [ref |-> <<"&", "l", "t", ";">>, char |-> "<"],
    [ref |-> <<"&", "g", "t", ";">>, char |-> ">"], [ref |-> <<"&", "a", "p", "o", "s", ";">>, char |-> "'"],
    [ref |-> <<"&", "q", "u", "o", "t", ";">>, char |-> "\""] }

\* the text begins with the prefix
StartsWith(text, prefix) ==
  Len(text) >= Len(prefix) /\ SubSeq(text, 1, Len(prefix)) = prefix

RECURSIVE Unescape(_)
\* the character data an XML parser reads from an escaped text, left to right
Unescape(text) ==
  IF text = <<>> THEN <<>>
  ELSE IF \E e \in Entities : StartsWith(text, e.ref)
    THEN LET e == CHOOSE x \in Entities : StartsWith(text, x.ref)
         IN <<e.char>> \o Unescape(SubSeq(text, Len(e.ref) + 1, Len(text)))
  ELSE <<Head(text)>> \o Unescape(Tail(text))

\* no special character is left raw: every & opens an entity reference, and there is
\* no < > ' or " in the text
NoRawSpecial(text) ==
  \A n \in 1..Len(text) :
    /\ text[n] \notin {"<", ">", "'", "\""}
    /\ text[n] = "&" => \E e \in Entities : StartsWith(SubSeq(text, n, Len(text)), e.ref)

\* C11: for every message, the text each renderer speaks un-escapes to the message
\* (for the error renderer, to the message followed by the fixed suffix), and no
\* special character of the message is left raw in it.
C11_RoundTrip ==
  (path # "none")
    => /\ Unescape(response.say)
            = IF path = "error" THEN request.message \o <<".", " ", "G", "o", "o", "d", "b", "y", "e", "!">>
              ELSE request.message
       /\ NoRawSpecial(response.say)

\* C11 witness: a message with an ampersand and an angle bracket has been rendered by
\* the continue renderer and reads back as it was.
C11_Witness ==
  /\ path = "continue"
  /\ \E n \in 1..Len(request.message) : request.message[n] = "&"
  /\ \E n \in 1..Len(request.message) : request.message[n] = "<"
  /\ Unescape(response.say) = request.message

\* the turns of a transcript: who spoke and what was said, in stored order
Turns(rows) == [n \in 1..Len(rows) |-> <<rows[n].speaker, rows[n].message>>]

\* the step is a speech event that handle_user_response handled to its return
SpeechReturned ==
  /\ request'.op = "speech" /\ credentials'
  /\ path' \in {"classifier_end", "reply_end", "continue"}

\* what the bot says in the turn the speech event records
BotTurnOf(taken, made) ==
  IF taken = "classifier_end" THEN <<"T", "h", "a", "n", "k", " ", "y", "o", "u", ",", " ", "h", "a", "v", "e", " ", "a", " ", "g", "o", "o", "d", " ", "d", "a", "y", "!">> ELSE made.response

\* C12 as the specification states it: a speech event handled without an exception
\* appends the user's utterance and then one bot turn, and nothing else.
C12_AsClaimed ==
  [][SpeechReturned
       => Turns(transcripts')
            = Turns(transcripts) \o << <<"user", request'.speech_result>>,
                                       <<"bot", BotTurnOf(path', decision')>> >>]_vars

\* C12: a speech event handled without an exception appends the user's utterance and
\* then one bot turn, and nothing else, when the database accepts the writes and the
\* reply is a text; it appends the user's utterance alone when the reply is null, and
\* nothing when the database rejects the writes.
C12_UserThenBot ==
  [][SpeechReturned
       => Turns(transcripts')
            = Turns(transcripts)
                \o (IF db_up' THEN << <<"user", request'.speech_result>> >> ELSE <<>>)
                \o (IF db_up' /\ BotTurnOf(path', decision') # NoneText
                      THEN << <<"bot", BotTurnOf(path', decision')>> >> ELSE <<>>)]_vars

\* C12 witness: a continuing speech event has been recorded; the last two turns of the
\* transcript are the utterance and then the reply.
C12_Witness ==
  /\ Handled /\ path = "continue" /\ db_up /\ Len(transcripts) >= 2
  /\ SubSeq(Turns(transcripts), Len(transcripts) - 1, Len(transcripts))
       = << <<"user", request.speech_result>>, <<"bot", decision.response>> >>

\* which of the three writes of a speech event the database accepts
WriteOutcomes == [user : BOOLEAN, bot : BOOLEAN, status : BOOLEAN]

\* C13 for every store a service could hold and every combination of failed writes:
\* the document and the store are those of the same event with every write accepted.
C13_AnyFailure ==
  \A store \in SessionStores, utterance \in Utterances, r \in Replies,
     commits \in WriteOutcomes :
    LET failed == handle_user_response(store, ConnectedLogs, Connected.transcripts,
                                       WEBHOOK_BASE_URL, Len(ConnectedLogs), utterance,
                                       SidOf(Len(ConnectedLogs)), r, commits)
        stored == handle_user_response(store, ConnectedLogs, Connected.transcripts,
                                       WEBHOOK_BASE_URL, Len(ConnectedLogs), utterance,
                                       SidOf(Len(ConnectedLogs)), r, AllUp)
    IN failed.twiml = stored.twiml /\ failed.store = stored.store

\* C13: a speech event whose transcript or status write fails gets the document, and
\* leaves the session store, that the same event gets and leaves when every write is
\* accepted.
C13_SameResponse ==
  /\ C13_AnyFailure
  /\ Handled
       => LET stored == handle_user_response(NewStore, call_logs, transcripts,
                                             WEBHOOK_BASE_URL, request.call_log_id,
                                             request.speech_result, request.call_sid,
                                             reply, AllUp)
          IN response = stored.twiml /\ active_conversations = stored.store

\* C13 witness: a turn ended the call after a reply while the database was down; the
\* hangup document was returned and the session removed, and the record is not
\* completed.
C13_Witness ==
  /\ Handled /\ HasRecord /\ ~db_up /\ path = "reply_end"
  /\ IsHangupDoc(response)
  /\ request.call_sid \notin DOMAIN active_conversations
  /\ call_logs[request.call_log_id].status # "completed"

(***************************************************************************)
(* The turn engine on texts of its own: a service holds no session or a    *)
(* session at some turn count, an utterance is drawn from the texts over a *)
(* small alphabet and from sentences with and without a termination        *)
(* phrase, and the classifier, the closing line or the whole handler is    *)
(* applied to it.  request holds the inputs, response the result.          *)
(***************************************************************************)
\* longest utterance drawn from the alphabet
MaxUtteranceLen == 3

UtteranceAlphabet == {"n", "o", "N", " ", "p", "e"}

Sentences ==
  Utterances \cup TerminatingUtterances
    \cup { <<"n", "o", "t", "h", "i", "n", "g">>, <<"N", "o", "t", "h", "i", "n", "g", ".">>, <<"N", "O", "P", "E">>, <<"y", "e", "s", " ", "p", "l", "e", "a", "s", "e">>, <<"o", "k">> }

UtteranceTexts == TextsOver(UtteranceAlphabet, MaxUtteranceLen) \cup Sentences

TextInit ==
  /\ credentials = TRUE
  /\ call_logs = ConnectedLogs
  /\ transcripts = Connected.transcripts
  /\ active_conversations \in SessionStores
  /\ \E u \in UtteranceTexts :
       request = [op |-> "text", call_log_id |-> Len(ConnectedLogs),
                  call_sid |-> SidOf(Len(ConnectedLogs)), speech_result |-> u,
                  turn_count |-> DictGet(active_conversations, SidOf(Len(ConnectedLogs)),
                                         DefaultContext).turn_count]
  /\ db_up = TRUE
  /\ reply = NoReply
  /\ response = NoResponse
  /\ loaded = DefaultContext
  /\ decision = NoDecision
  /\ llm_calls = 0
  /\ path = "none"
  /\ inflight = [i \in Slots |-> Idle]

\* lines 169-177 alone
Classify ==
  /\ path = "none"
  /\ response' = [ends |-> should_end_conversation(request.speech_result,
                                                   request.turn_count)]
  /\ path' = "classified"
  /\ UNCHANGED <<credentials, call_logs, transcripts, active_conversations, request,
                 db_up, reply, loaded, decision, llm_calls, inflight>>

\* lines 247-250 alone
Close(bot_response) ==
  /\ path = "none"
  /\ response' = [closing |-> ending_response(request.speech_result, bot_response),
                  bot_response |-> bot_response]
  /\ path' = "closed"
  /\ UNCHANGED <<credentials, call_logs, transcripts, active_conversations, request,
                 db_up, reply, loaded, decision, llm_calls, inflight>>

\* handle_user_response on the store the service holds
Handle(model_reply) ==
  /\ path = "none"
  /\ LET result == handle_user_response(active_conversations, call_logs, transcripts,
                                        WEBHOOK_BASE_URL, request.call_log_id,
                                        request.speech_result, request.call_sid,
                                        model_reply, AllUp)
     IN /\ call_logs' = result.call_logs
        /\ transcripts' = result.transcripts
        /\ active_conversations' = result.store
        /\ response' = result.twiml
        /\ reply' = IF result.llm_calls > 0 THEN model_reply ELSE NoReply
        /\ loaded' = result.loaded
        /\ decision' = result.decision
        /\ llm_calls' = result.llm_calls
        /\ path' = result.path
  /\ UNCHANGED <<credentials, request, db_up, inflight>>

\* the replies the handler is given: those of the model, and a structured reply
\* with an intent to end and no should_continue
HandlerReplies ==
  Replies \cup { [kind |-> "json", response |-> <<"S", "u", "r", "e", ".">>, intent |-> "wants_to_end",
                  confidence |-> "high", should_continue |-> Absent] }

\* raw texts one character short of, at, and one character past the limit of line 120
RawTexts ==
  {[n \in 1..k |-> "a"] : k \in {RawTextLimit - 1, RawTextLimit, RawTextLimit + 1}}

\* the replies the generator is given on its own
GeneratorReplies == HandlerReplies \cup {[kind |-> "text", text |-> t] : t \in RawTexts}

\* generate_optimized_bot_response alone, on the context the service holds
Decide(model_reply) ==
  /\ path = "none"
  /\ LET context == DictGet(active_conversations, request.call_sid, DefaultContext)
     IN decision' = generate_optimized_bot_response(context.conversation_type,
                                                    request.speech_result,
                                                    context.conversation_history,
                                                    context.turn_count, model_reply)
  /\ reply' = model_reply
  /\ llm_calls' = 1
  /\ path' = "decided"
  /\ UNCHANGED <<credentials, call_logs, transcripts, active_conversations, request,
                 db_up, response, loaded, inflight>>

TextNext ==
  \/ Classify
  \/ \E bot_response \in BotResponses : Close(bot_response)
  \/ \E model_reply \in HandlerReplies : Handle(model_reply)
  \/ \E model_reply \in GeneratorReplies : Decide(model_reply)

TextSpec == TextInit /\ [][TextNext]_vars

\* the handler ran to one of its returns
Returned == path \in {"classifier_end", "reply_end", "except", "continue"}

\* C14: below turn count 2, an utterance whose lower-cased and trimmed text holds no
\* termination phrase is not classified as a request to end, and the handler asks the
\* Response Generator for a reply to it.
C14_ReachesGenerator ==
  (request.turn_count < 2 /\ ~HasTerminationPhrase(request.speech_result))
    => /\ path = "classified" => ~response.ends
       /\ Returned => llm_calls = 1 /\ path # "classifier_end" /\ reply # NoReply

\* C14 witness: an utterance of blanks alone, at turn count 1, was handled and the
\* generator was asked.
C14_Witness ==
  /\ Returned /\ request.turn_count = 1 /\ request.speech_result = <<" ", " ">>
  /\ llm_calls = 1 /\ path = "reply_end"

\* the first text is a prefix of the second
IsPrefix(short, long) ==
  Len(short) <= Len(long) /\ SubSeq(long, 1, Len(short)) = short

\* C15 as the specification states it: a call-connected or speech event for a key
\* that has a session before and after it leaves a history that extends the history
\* stored before, and a turn count that is not lower.
C15_AsClaimed ==
  [][ (/\ request'.op \in {"webhook", "speech"} /\ credentials /\ OfPlacedCall(request')
       /\ request'.call_sid \in DOMAIN active_conversations
       /\ request'.call_sid \in DOMAIN active_conversations')
        => LET before == active_conversations[request'.call_sid]
               after == active_conversations'[request'.call_sid]
           IN /\ IsPrefix(before.conversation_history, after.conversation_history)
              /\ after.turn_count >= before.turn_count ]_vars

\* C16 as the specification states it: once a call-connected or speech event of a
\* placed call has been answered with a document that speaks and hangs up, no session
\* of the call is stored, under the provider's identifier or under the temporary key.
C16_AsClaimed ==
  (/\ request.op \in {"webhook", "speech"} /\ credentials /\ OfPlacedCall(request)
   /\ IsHangupDoc(response))
    => /\ request.call_sid \notin DOMAIN active_conversations
       /\ CallKey(request.call_log_id) \notin DOMAIN active_conversations

\* the step is a call-connected event, handled by handle_call_webhook, for a record
\* of the table
ConnectedStep ==
  request'.op = "webhook" /\ credentials /\ request'.call_log_id \in DOMAIN call_logs

\* the effect C17 describes, for the request of the step
ConnectedEffect ==
  LET call_log == call_logs[request'.call_log_id]
      conversation_key == IF request'.call_sid = PyNone
                            THEN CallKey(request'.call_log_id) ELSE request'.call_sid
  IN /\ conversation_key \in DOMAIN active_conversations'
     /\ active_conversations'[conversation_key].turn_count = 0
     /\ active_conversations'[conversation_key].conversation_history = <<>>
     /\ active_conversations'[conversation_key].conversation_type
          = call_log.conversation_type
     /\ IsContinueDoc(response') /\ response'.say = Escaped(call_log.greeting)
     /\ Turns(transcripts') = Append(Turns(transcripts), <<"bot", call_log.greeting>>)
     /\ call_logs' = call_logs

ClosingLineFor(utterance, generated) ==
  IF Contains(Lower(utterance), <<"n", "o">>) \/ Contains(Lower(utterance), <<"n", "o", "t", "h", "i", "n", "g">>)
    THEN <<"U", "n", "d", "e", "r", "s", "t", "o", "o", "d", ".", " ", "T", "h", "a", "n", "k", " ", "y", "o", "u", " ", "f", "o", "r", " ", "y", "o", "u", "r", " ", "t", "i", "m", "e", ".", " ", "H", "a", "v", "e", " ", "a", " ", "g", "r", "e", "a", "t", " ", "d", "a", "y", "!">>
    ELSE Str(generated) \o <<" ", "T", "h", "a", "n", "k", " ", "y", "o", "u", " ", "f", "o", "r", " ", "y", "o", "u", "r", " ", "t", "i", "m", "e", ".", " ", "H", "a", "v", "e", " ", "a", " ", "g", "r", "e", "a", "t", " ", "d", "a", "y", "!">>

\* C18: the closing line built for a turn that ends the call after a generated reply
\* is the generic sentence when the utterance holds "no" or "nothing", and otherwise
\* the reply followed by the fixed suffix; the hangup document of such a turn speaks
\* that line.
C18_ClosingLine ==
  /\ path = "closed"
       => response.closing = ClosingLineFor(request.speech_result, response.bot_response)
  /\ path = "reply_end"
       => /\ IsHangupDoc(response)
          /\ response.say = Escaped(ClosingLineFor(request.speech_result,
                                                   decision.response))

\* C18 witness: the handler ended a call after the reply "Sure." and spoke the reply
\* followed by the suffix.
C18_Witness ==
  /\ path = "reply_end" /\ decision.response = <<"S", "u", "r", "e", ".">>
  /\ response.say = <<"S", "u", "r", "e", ".", " ", "T", "h", "a", "n", "k", " ", "y", "o", "u", " ", "f", "o", "r", " ", "y", "o", "u", "r", " ", "t", "i", "m", "e", ".", " ", "H", "a", "v", "e", " ", "a", " ", "g", "r", "e", "a", "t", " ", "d", "a", "y", "!">>

\* the utterance, lower-cased, holds "no" or "nothing"
HoldsNo(utterance) ==
  Contains(Lower(utterance), <<"n", "o">>) \/ Contains(Lower(utterance), <<"n", "o", "t", "h", "i", "n", "g">>)

\* the reply leaves should_continue to the generator's isFinalTurn
LeftToFinalTurn(given) ==
  given.kind = "text" \/ (given.kind = "json" /\ given.should_continue = Absent)

\* C19: the handler never speaks the generic closing sentence: an utterance that holds
\* "no" or "nothing" is ended by the classifier without the generator being asked, a
\* turn that ends after a reply speaks the reply followed by the suffix, and where the
\* generator decides by isFinalTurn the decision is that of turnCount >= 1.
C19_NeverGeneric ==
  /\ (Returned /\ HoldsNo(request.speech_result))
       => path = "classifier_end" /\ llm_calls = 0
  /\ path = "reply_end"
       => response.say
            = Escaped(Str(decision.response) \o <<" ", "T", "h", "a", "n", "k", " ", "y", "o", "u", " ", "f", "o", "r", " ", "y", "o", "u", "r", " ", "t", "i", "m", "e", ".", " ", "H", "a", "v", "e", " ", "a", " ", "g", "r", "e", "a", "t", " ", "d", "a", "y", "!">>)
  /\ (Returned /\ llm_calls = 1 /\ LeftToFinalTurn(reply))
       => decision.should_continue = ~(request.turn_count >= 1)

\* C19 witness: at turn count 1 the generator answered with a text that is not JSON;
\* it decided to stop, and the reply followed by the suffix was spoken.
C19_Witness ==
  /\ path = "reply_end" /\ reply.kind = "text" /\ request.turn_count = 1
  /\ ~HoldsNo(request.speech_result)
  /\ decision.should_continue = FALSE
  /\ response.say = Str(decision.response) \o <<" ", "T", "h", "a", "n", "k", " ", "y", "o", "u", " ", "f", "o", "r", " ", "y", "o", "u", "r", " ", "t", "i", "m", "e", ".", " ", "H", "a", "v", "e", " ", "a", " ", "g", "r", "e", "a", "t", " ", "d", "a", "y", "!">>

\* the utterance, lower-cased and trimmed, is one of the words of the exact-match rule
IsExactWord(utterance) ==
  Strip(Lower(utterance)) \in { <<"n", "o">>, <<"n", "o", "p", "e">>, <<"n", "o", "t", "h", "i", "n", "g">> }

\* C20: the classifier's result is that of the substring rule alone, whatever the turn
\* count: the exact-match rule holds only for utterances the substring rule ends.
C20_SubstringAlone ==
  path = "classified"
    => /\ response.ends = HasTerminationPhrase(request.speech_result)
       /\ \A t \in 0..(ExactRuleFrom + 1) :
            should_end_conversation(request.speech_result, t) = response.ends
       /\ IsExactWord(request.speech_result)
            => HasTerminationPhrase(request.speech_result)

\* C20 witness: at turn count 2 the utterance " No" was classified: the exact-match
\* rule applies to it and the classifier ends the call.
C20_Witness ==
  /\ path = "classified" /\ request.turn_count = 2
  /\ request.speech_result = <<" ", "N", "o">>
  /\ IsExactWord(request.speech_result) /\ response.ends

\* the final-turn test C21 describes; the utterance is looked at in lower case
FinalTurnFor(utterance, turn_count) ==
  \/ turn_count >= 1
  \/ \E word \in { <<"n", "o">>, <<"n", "o", "t", "h", "i", "n", "g">>, <<"n", "o", "p", "e">>, <<"t", "h", "a", "t", "'", "s", " ", "a", "l", "l">>, <<"i", "'", "m", " ", "g", "o", "o", "d">> } :
       Contains(Lower(utterance), word)

\* the fields of a decision are those of the reply, with the defaults C21 lists for
\* the absent ones
DefaultsFilled(made, given) ==
  IF given.kind = "text"
    THEN made.intent = "neutral" /\ made.confidence = "medium"
    ELSE /\ given.response = AbsentText
              => made.response = <<"T", "h", "a", "n", "k", " ", "y", "o", "u", " ", "f", "o", "r", " ", "s", "h", "a", "r", "i", "n", "g", " ", "t", "h", "a", "t", " ", "w", "i", "t", "h", " ", "m", "e", ".">>
         /\ given.intent = Absent => made.intent = "neutral"
         /\ given.confidence = Absent => made.confidence = "medium"

\* the generator was asked by the handler, and the reply leaves should_continue to
\* isFinalTurn
HandledByDefault == Returned /\ llm_calls = 1 /\ LeftToFinalTurn(reply)

\* C21 as the specification states it: a reply that leaves should_continue to the
\* generator gets the negation of isFinalTurn and the listed defaults, and so the call
\* continues at turn count 0 and ends at turn count 1 or more.
C21_AsClaimed ==
  /\ (path = "decided" /\ LeftToFinalTurn(reply))
       => /\ decision.should_continue
               = ~FinalTurnFor(request.speech_result, request.turn_count)
          /\ DefaultsFilled(decision, reply)
  /\ HandledByDefault
       => IF request.turn_count = 0 THEN IsContinueDoc(response) /\ path = "continue"
          ELSE IsHangupDoc(response) /\ path = "reply_end"

\* C21: a reply that leaves should_continue to the generator gets the negation of
\* isFinalTurn and the listed defaults; the call then continues exactly when the turn
\* count is 0 and the reply's intent is not wants_to_end, and ends otherwise.
C21_Defaults ==
  /\ (path = "decided" /\ LeftToFinalTurn(reply))
       => /\ decision.should_continue
               = ~FinalTurnFor(request.speech_result, request.turn_count)
          /\ DefaultsFilled(decision, reply)
  /\ HandledByDefault
       => IF request.turn_count = 0 /\ decision.intent # "wants_to_end"
            THEN IsContinueDoc(response) /\ path = "continue"
            ELSE IsHangupDoc(response) /\ path = "reply_end"

\* C21 witness: at turn count 0 the generator was given a structured reply without
\* any field; the decision has the three defaults and continues, and the handler
\* answered with continue markup.
C21_Witness ==
  /\ HandledByDefault /\ request.turn_count = 0
  /\ reply.kind = "json" /\ reply.response = AbsentText
  /\ decision.response = <<"T", "h", "a", "n", "k", " ", "y", "o", "u", " ", "f", "o", "r", " ", "s", "h", "a", "r", "i", "n", "g", " ", "t", "h", "a", "t", " ", "w", "i", "t", "h", " ", "m", "e", ".">>
  /\ decision.intent = "neutral" /\ decision.confidence = "medium"
  /\ decision.should_continue /\ path = "continue"

\* the generator was given a text that json.loads does not parse
Unstructured == path = "decided" /\ reply.kind = "text"

\* C22 as the specification states it: the decision's reply is the raw text when the
\* raw text has at most 100 characters, and the generic line when it has more.
C22_AsClaimed ==
  Unstructured
    => decision.response = IF Len(reply.text) <= 100 THEN reply.text
                           ELSE <<"T", "h", "a", "n", "k", " ", "y", "o", "u", " ", "f", "o", "r", " ", "s", "h", "a", "r", "i", "n", "g", " ", "t", "h", "a", "t", " ", "w", "i", "t", "h", " ", "m", "e", ".">>

\* C22: the decision's reply is the raw text when the raw text has fewer than 100
\* characters, and the generic line when it has 100 or more.
C22_RawText ==
  Unstructured
    => decision.response = IF Len(reply.text) < 100 THEN reply.text
                           ELSE <<"T", "h", "a", "n", "k", " ", "y", "o", "u", " ", "f", "o", "r", " ", "s", "h", "a", "r", "i", "n", "g", " ", "t", "h", "a", "t", " ", "w", "i", "t", "h", " ", "m", "e", ".">>

\* C22 witness: a raw text of exactly 100 characters was replaced by the generic line.
C22_Witness ==
  /\ Unstructured /\ Len(reply.text) = 100
  /\ decision.response = <<"T", "h", "a", "n", "k", " ", "y", "o", "u", " ", "f", "o", "r", " ", "s", "h", "a", "r", "i", "n", "g", " ", "t", "h", "a", "t", " ", "w", "i", "t", "h", " ", "m", "e", ".">>

\* C23 as the specification states it: when a speech event has been handled and its
\* bot turn stored, the message of that turn is the message the returned document
\* speaks, whichever way the handler returned.
C23_AsClaimed ==
  (/\ Handled /\ HasRecord /\ db_up
   /\ path \in {"classifier_end", "reply_end", "continue"}
   /\ Len(transcripts) >= 1 /\ transcripts[Len(transcripts)].speaker = "bot")
    => response.say = Escaped(transcripts[Len(transcripts)].message)

\* C24 as the specification states it: when a call-connected or speech event of a
\* placed call has been answered, with the database up, by a document that hangs up
\* without collecting speech, the call record is completed.
C24_AsClaimed ==
  (/\ request.op \in {"webhook", "speech"} /\ credentials /\ HasRecord /\ db_up
   /\ IsHangupDoc(response))
    => call_logs[request.call_log_id].status = "completed"

\* the session key of a call-connected or speech request
KeyOf(req) ==
  IF req.op = "webhook" /\ req.call_sid = PyNone THEN CallKey(req.call_log_id)
  ELSE req.call_sid

MaxUrlTail == 3

UrlTailAlphabet == {"/", "a", "."}

\* values of WEBHOOK_BASE_URL in the environment
ConfiguredUrls ==
  {WEBHOOK_BASE_URL \o t : t \in TextsOver(UrlTailAlphabet, MaxUrlTail)}

RECURSIVE RStripChar(_, _)
\* s.rstrip(c) for a one-character c
RStripChar(s, c) ==
  IF s # <<>> /\ s[Len(s)] = c THEN RStripChar(SubSeq(s, 1, Len(s) - 1), c) ELSE s

NoTarget == [base |-> <<>>, path |-> "", id |-> 0]

UrlInit ==
  /\ credentials = TRUE
  /\ call_logs = <<>>
  /\ transcripts = <<>>
  /\ active_conversations = EmptyDict
  /\ request \in {[op |-> "url", configured |-> u, call_log_id |-> 0,
                   webhook_url |-> NoTarget] : u \in ConfiguredUrls}
  /\ db_up = TRUE
  /\ reply = NoReply
  /\ response = NoResponse
  /\ loaded = DefaultContext
  /\ decision = NoDecision
  /\ llm_calls = 0
  /\ path = "none"
  /\ inflight = [i \in Slots |-> Idle]

\* /outgoing-call: routes.py 46-55 and the webhook target of initiate_outgoing_call
PlaceUrl(call_log_id) ==
  /\ path = "none"
  /\ LET webhook_base_url == RStripChar(request.configured, "/")
     IN request' = [request EXCEPT !.call_log_id = call_log_id,
                                   !.webhook_url = [base |-> webhook_base_url,
                                                    path |-> "/call-webhook/",
                                                    id |-> call_log_id]]
  /\ path' = "placed"
  /\ UNCHANGED <<credentials, call_logs, transcripts, active_conversations, db_up,
                 reply, response, loaded, decision, llm_calls, inflight>>

\* the continue markup of a later call-connected request, built by a new service
ConnectUrl(greeting) ==
  /\ path = "placed"
  /\ response' = _generate_continue_twiml(greeting, request.call_log_id,
                                          request.configured)
  /\ path' = "greeting"
  /\ UNCHANGED <<credentials, call_logs, transcripts, active_conversations, request,
                 db_up, reply, loaded, decision, llm_calls, inflight>>

\* the continue markup of a later speech request, built by a new service
SpeechUrl(bot_response) ==
  /\ path \in {"greeting", "continue"}
  /\ response' = _generate_continue_twiml(bot_response, request.call_log_id,
                                          request.configured)
  /\ path' = "continue"
  /\ UNCHANGED <<credentials, call_logs, transcripts, active_conversations, request,
                 db_up, reply, loaded, decision, llm_calls, inflight>>

UrlNext ==
  \/ \E call_log_id \in CallLogIds : PlaceUrl(call_log_id)
  \/ \E greeting \in Greetings : ConnectUrl(greeting)
  \/ \E bot_response \in BotResponses \ {NoneText} : SpeechUrl(bot_response)

UrlSpec == UrlInit /\ [][UrlNext]_vars

\* C26 as the specification states it: the speech-collection callback of a continue
\* markup is /call-response/ of the record under the base URL that the webhook
\* target of the call was built from.
C26_AsClaimed ==
  (path \in {"greeting", "continue"})
    => /\ response.gather.base = request.webhook_url.base
       /\ response.gather.path = "/call-response/"
       /\ response.gather.id = request.webhook_url.id

\* the latest request placed a call, the database was up, and the provider returned no
\* call identifier: the record created for the call is marked failed
PlacedWithoutSid ==
  /\ request.op = "place" /\ credentials /\ db_up
  /\ Len(call_logs) >= 1 /\ call_logs[Len(call_logs)].status = "failed"

\* C27 as the specification states it, for the second outcome: when the provider
\* returns no call identifier the record is failed, no session is stored, and
\* /outgoing-call answers with status 400 and the failure message.
C27_AsClaimed ==
  PlacedWithoutSid
    => /\ active_conversations = EmptyDict
       /\ response.status = 400
       /\ response.detail = "Failed to initiate call"
       /\ call_logs[Len(call_logs)].call_sid = PyNone

=============================================================================
